---- MODULE Spec2Model ----
(***************************************************************************)
(* Model of the chat relay worker, apps/chat-worker/src/index.ts.          *)
(*                                                                         *)
(* One POST /api/chat handler runs per request.  JavaScript runs a handler *)
(* to its next `await` without interruption, so there is one action per    *)
(* resumption of the handler: the body parse (line 78), the gateway URL    *)
(* resolution (line 92), the chat completion (line 101) and the read of    *)
(* the upstream error body (line 112).  Several requests interleave at     *)
(* these points.                                                           *)
(***************************************************************************)
EXTENDS Integers, Sequences, FiniteSets, TLC

\* Number of request slots of the model.
NumRequests == 2

Requests == 1..NumRequests

-----------------------------------------------------------------------------
(* JavaScript values.  An optional value (a field that may be absent,      *)
(* undefined or null) is a sequence of length 0 or 1.                      *)

None == <<>>

Some(x) == <<x>>

Undefined == [t |-> "undefined", v |-> ""]

Null == [t |-> "null", v |-> ""]

Str(s) == [t |-> "string", v |-> s]

Num(s) == [t |-> "number", v |-> s]

Arr(s) == [t |-> "object", v |-> s]

\* Values the `prompt` member of a parsed body can take.
PromptValues ==
    {Undefined, Null, Str(""), Str("hi"), Num("0"), Num("42"), Arr("[]")}

NoBody == [kind |-> "none", prompt |-> Undefined]

\* Request bodies: text that is not JSON, the JSON literal null, and JSON
\* objects with any value of `prompt` (Undefined: the member is absent).
Bodies ==
    {[kind |-> "malformed", prompt |-> Undefined],
     [kind |-> "null", prompt |-> Undefined]}
    \cup {[kind |-> "object", prompt |-> p] : p \in PromptValues}

\* ToBoolean of `!prompt`, line 83, mutated: only null and undefined are
\* rejected (as `prompt == null` would).
TruthyNullishOnly(v) ==
    v.t \notin {"undefined", "null"}

\* ToBoolean of `!prompt`, line 83.
Truthy(v) ==
    CASE v.t \in {"undefined", "null"} -> FALSE
      [] v.t = "string" -> v.v # ""
      [] v.t = "number" -> v.v \notin {"0", "NaN"}
      [] v.t = "boolean" -> v.v = "true"
      [] OTHER -> TRUE

-----------------------------------------------------------------------------
(* JSON text.  A body is a sequence of tokens; an object is a sequence of  *)
(* members [k, v] in insertion order.                                      *)

Punct(c) == [t |-> "punct", v |-> c]

Key(k) == [t |-> "key", v |-> k]

RECURSIVE Members(_)
\* JSON.stringify of the members of an object: a member whose value is
\* undefined is left out, the others are separated by commas.
Members(o) ==
    IF o = <<>> THEN <<>>
    ELSE LET m == Head(o)
             rest == Members(Tail(o))
         IN IF m.v.t = "undefined" THEN rest
            ELSE <<Key(m.k), Punct(":"), m.v>>
                 \o (IF rest = <<>> THEN <<>> ELSE <<Punct(",")>> \o rest)

\* The body c.json(o) writes, lines 87, 105 and 120.
JsonStringify(o) ==
    <<Punct("{")>> \o Members(o) \o <<Punct("}")>>

RECURSIVE ParseMembers(_)
ParseMembers(ts) ==
    IF Len(ts) < 3 THEN <<>>
    ELSE <<[k |-> ts[1].v, v |-> ts[3]]>> \o ParseMembers(SubSeq(ts, 5, Len(ts)))

\* What a caller reads back from a JSON body.
JsonParse(ts) ==
    IF Len(ts) < 2 THEN <<>> ELSE ParseMembers(SubSeq(ts, 2, Len(ts) - 1))

-----------------------------------------------------------------------------
(* The upstream: completions it returns and errors it throws.              *)

\* Completion objects, as the SDK parses them from the provider's JSON.
Completions ==
    {<<[k |-> "id", v |-> Str("c1")], [k |-> "content", v |-> Str("hello")]>>,
     <<[k |-> "id", v |-> Str("c2")], [k |-> "refusal", v |-> Null]>>}

RateLimitedText == JsonStringify(<<[k |-> "error", v |-> Str("rate limited")]>>)

PlainText == <<[t |-> "raw", v |-> "upstream unavailable"]>>

\* err.response.text: not a function, resolving to a text, or rejecting.
TextFns ==
    {[kind |-> "absent", body |-> <<>>],
     [kind |-> "resolves", body |-> RateLimitedText],
     [kind |-> "resolves", body |-> PlainText],
     [kind |-> "rejects", body |-> <<>>]}

ErrResponses ==
    [status : {None, Some(503), Some(204)}, text : TextFns]

\* Everything gateway(...).getUrl() or completions.create() can throw.
Errors ==
    [status : {None, Some(429), Some(99)},
     response : {None} \cup {Some(rsp) : rsp \in ErrResponses},
     message : {None, Some(""), Some("network down")}]

\* The errors thrown when several callers run at once.
ConcErrors ==
    {[status |-> None, response |-> None, message |-> Some("network down")],
     [status |-> Some(429),
      response |-> Some([status |-> Some(503),
                         text |-> [kind |-> "resolves", body |-> RateLimitedText]]),
      message |-> None],
     [status |-> None,
      response |-> Some([status |-> Some(503),
                         text |-> [kind |-> "rejects", body |-> <<>>]]),
      message |-> None]}

Faults(n) == IF n = 1 THEN Errors ELSE ConcErrors

-----------------------------------------------------------------------------
(* Pieces of the handler.                                                  *)

\* Line 109 mutated: the status nested in err.response is not consulted.
DetermineStatusTopOnly(e) ==
    IF e.status # None THEN e.status[1] ELSE 502

\* Line 109: err?.status ?? err?.response?.status ?? 502.
DetermineStatus(e) ==
    IF e.status # None THEN e.status[1]
    ELSE IF e.response # None /\ e.response[1].status # None
         THEN e.response[1].status[1]
         ELSE 502

\* Line 110: typeof err?.response?.text === 'function'.
IsResponse(e) ==
    e.response # None /\ e.response[1].text.kind # "absent"

\* new Response(text, {status}), line 113, throws a RangeError for a status
\* outside 200..599 and a TypeError for a body with a null-body status.
ResponseCtorThrows(st) ==
    st < 200 \/ st > 599 \/ st \in {204, 205, 304}

\* Line 87.
NoPromptResponse ==
    [status |-> 400, contentType |-> "application/json", by |-> "handler",
     body |-> JsonStringify(<<[k |-> "error", v |-> Str("No prompt provided")]>>)]

\* Line 105 mutated: only the first member of the completion is returned.
SuccessResponseFirstMember(x) ==
    [status |-> 200, contentType |-> "application/json", by |-> "handler",
     body |-> JsonStringify(SubSeq(x, 1, 1))]

\* Line 105: c.json(completion).
SuccessResponse(x) ==
    [status |-> 200, contentType |-> "application/json", by |-> "handler",
     body |-> JsonStringify(x)]

\* Line 113: the upstream text forwarded as it is.
ForwardResponse(st, text) ==
    [status |-> st, contentType |-> "application/json", by |-> "handler",
     body |-> text]

\* Line 120: c.json({ error: err?.message ?? 'Upstream error' }, 502).
FallbackResponse(e) ==
    [status |-> 502, contentType |-> "application/json", by |-> "handler",
     body |-> JsonStringify(<<[k |-> "error",
                               v |-> IF e.message # None THEN Str(e.message[1])
                                     ELSE Str("Upstream error")]>>)]

\* The handler's exception is not caught (line 78 is outside the try): the
\* framework's default error handler answers 500.
UnhandledResponse ==
    [status |-> 500, contentType |-> "text/plain", by |-> "framework",
     body |-> <<[t |-> "raw", v |-> "Internal Server Error"]>>]

Event(e, arg) == [e |-> e, arg |-> arg]

\* An invocation of the async handler has its own closure for the locals
\* prompt, err and status; mutated: the locals are module-level variables.
SharedFrame(r) == 1

\* Line 68: each call of `async (c) => {...}` has its own locals.
Frame(r) == r

-----------------------------------------------------------------------------
VARIABLES
    clients,    \* number of callers issuing requests
    pc,         \* pc[r]: where the handler of request r is suspended
    body,       \* body[r]: the body of request r
    prompt,     \* the handler's local `prompt`
    err,        \* the caught `err`
    status,     \* the local `status` of the inner try
    upstream,   \* upstream[r]: what the upstream answered to request r
    events,     \* events[r]: calls, log lines and responses of r, in order
    responses   \* responses[r]: the HTTP responses sent for r

vars == <<clients, pc, body, prompt, err, status, upstream, events, responses>>

InitRequests ==
    /\ pc = [r \in Requests |-> "idle"]
    /\ body = [r \in Requests |-> NoBody]
    /\ prompt = [r \in Requests |-> Undefined]
    /\ err = [r \in Requests |-> None]
    /\ status = [r \in Requests |-> None]
    /\ upstream = [r \in Requests |-> <<>>]
    /\ events = [r \in Requests |-> <<>>]
    /\ responses = [r \in Requests |-> <<>>]

\* One caller, any upstream error.
Init ==
    /\ clients = 1
    /\ InitRequests

\* Every slot has a caller.
InitConc ==
    /\ clients = NumRequests
    /\ InitRequests

\* A response is sent for r and its handling ends.
Respond(r, evs, resp) ==
    /\ events' = [events EXCEPT ![r] = @ \o evs \o <<Event("respond", Undefined)>>]
    /\ responses' = [responses EXCEPT ![r] = Append(@, resp)]
    /\ pc' = [pc EXCEPT ![r] = "done"]

\* Lines 119-120: log, then answer with the fallback envelope.
Fallback(r, e) ==
    Respond(r, <<Event("log", Undefined)>>, FallbackResponse(e))

\* Line 68: a request arrives and c.req.json() starts reading it.
Receive(r, b) ==
    /\ pc[r] = "idle"
    /\ r <= clients
    /\ body' = [body EXCEPT ![r] = b]
    /\ pc' = [pc EXCEPT ![r] = "awaitJson"]
    /\ UNCHANGED <<clients, prompt, err, status, upstream, events, responses>>

\* Line 78: c.req.json() rejects, or destructuring null throws.
ParseFails(r) ==
    /\ pc[r] = "awaitJson"
    /\ body[r].kind \in {"malformed", "null"}
    /\ Respond(r, <<Event("unhandled", Undefined)>>, UnhandledResponse)
    /\ UNCHANGED <<clients, body, prompt, err, status, upstream>>

\* Lines 78-88: the prompt is falsy.
RejectPrompt(r) ==
    /\ pc[r] = "awaitJson"
    /\ body[r].kind = "object"
    /\ ~Truthy(body[r].prompt)
    /\ prompt' = [prompt EXCEPT ![Frame(r)] = body[r].prompt]
    /\ Respond(r, <<>>, NoPromptResponse)
    /\ UNCHANGED <<clients, body, err, status, upstream>>

\* Lines 78-92: the prompt is accepted and getUrl() is called.
ResolveGateway(r) ==
    /\ pc[r] = "awaitJson"
    /\ body[r].kind = "object"
    /\ Truthy(body[r].prompt)
    /\ prompt' = [prompt EXCEPT ![Frame(r)] = body[r].prompt]
    /\ events' = [events EXCEPT ![r] = Append(@, Event("getUrl", Undefined))]
    /\ pc' = [pc EXCEPT ![r] = "awaitUrl"]
    /\ UNCHANGED <<clients, body, err, status, upstream, responses>>

\* Lines 92-104: getUrl() resolved; the client is built and create() called.
UrlResolved(r) ==
    /\ pc[r] = "awaitUrl"
    /\ upstream' = [upstream EXCEPT ![r] =
           Append(@, [op |-> "getUrl", completion |-> None, error |-> None])]
    /\ events' = [events EXCEPT ![r] = Append(@, Event("create", prompt[Frame(r)]))]
    /\ pc' = [pc EXCEPT ![r] = "awaitCreate"]
    /\ UNCHANGED <<clients, body, prompt, err, status, responses>>

\* Lines 106-120 up to the first await: the catch block entered with e.
Catch(r, e) ==
    /\ err' = [err EXCEPT ![Frame(r)] = Some(e)]
    /\ status' = [status EXCEPT ![Frame(r)] = Some(DetermineStatus(e))]
    /\ IF IsResponse(e)
       THEN /\ events' = [events EXCEPT ![r] = Append(@, Event("text", Undefined))]
            /\ pc' = [pc EXCEPT ![r] = "awaitText"]
            /\ UNCHANGED responses
       ELSE Fallback(r, e)

\* Line 92 mutated: the failure of getUrl() is ignored and create() called.
UrlFailsThenCreate(r, e) ==
    /\ pc[r] = "awaitUrl"
    /\ e \in Faults(clients)
    /\ upstream' = [upstream EXCEPT ![r] =
           Append(@, [op |-> "getUrl", completion |-> None, error |-> Some(e)])]
    /\ events' = [events EXCEPT ![r] = Append(@, Event("create", prompt[Frame(r)]))]
    /\ pc' = [pc EXCEPT ![r] = "awaitCreate"]
    /\ UNCHANGED <<clients, body, prompt, err, status, responses>>

\* Lines 92, 106: gateway(...).getUrl() throws e.
UrlFails(r, e) ==
    /\ pc[r] = "awaitUrl"
    /\ e \in Faults(clients)
    /\ upstream' = [upstream EXCEPT ![r] =
           Append(@, [op |-> "getUrl", completion |-> None, error |-> Some(e)])]
    /\ Catch(r, e)
    /\ UNCHANGED <<clients, body, prompt>>

\* Lines 101-105: create() returned the completion x.
CreateReturns(r, x) ==
    /\ pc[r] = "awaitCreate"
    /\ x \in Completions
    /\ upstream' = [upstream EXCEPT ![r] =
           Append(@, [op |-> "create", completion |-> Some(x), error |-> None])]
    /\ Respond(r, <<>>, SuccessResponse(x))
    /\ UNCHANGED <<clients, body, prompt, err, status>>

\* Lines 101, 106: create() throws e.
CreateThrows(r, e) ==
    /\ pc[r] = "awaitCreate"
    /\ e \in Faults(clients)
    /\ upstream' = [upstream EXCEPT ![r] =
           Append(@, [op |-> "create", completion |-> None, error |-> Some(e)])]
    /\ Catch(r, e)
    /\ UNCHANGED <<clients, body, prompt>>

\* Lines 112-118: err.response.text() resolved; the Response is built, or
\* its constructor throws into the empty catch.
TextResolves(r) ==
    /\ pc[r] = "awaitText"
    /\ LET e == err[Frame(r)][1]
           st == status[Frame(r)][1]
           text == e.response[1].text
       IN /\ text.kind = "resolves"
          /\ IF ResponseCtorThrows(st)
             THEN Fallback(r, e)
             ELSE Respond(r, <<>>, ForwardResponse(st, text.body))
    /\ UNCHANGED <<clients, body, prompt, err, status, upstream>>

\* Line 112 mutated: no inner try, the rejection leaves the handler.
TextRejectsEscapes(r) ==
    /\ pc[r] = "awaitText"
    /\ err[Frame(r)][1].response[1].text.kind = "rejects"
    /\ Respond(r, <<Event("unhandled", Undefined)>>, UnhandledResponse)
    /\ UNCHANGED <<clients, body, prompt, err, status, upstream>>

\* Lines 112, 118-120: err.response.text() rejects into the empty catch.
TextRejects(r) ==
    /\ pc[r] = "awaitText"
    /\ err[Frame(r)][1].response[1].text.kind = "rejects"
    /\ Fallback(r, err[Frame(r)][1])
    /\ UNCHANGED <<clients, body, prompt, err, status, upstream>>

Next ==
    \/ \E r \in Requests, b \in Bodies : Receive(r, b)
    \/ \E r \in Requests : ParseFails(r)
    \/ \E r \in Requests : RejectPrompt(r)
    \/ \E r \in Requests : ResolveGateway(r)
    \/ \E r \in Requests : UrlResolved(r)
    \/ \E r \in Requests, e \in Errors : UrlFails(r, e)
    \/ \E r \in Requests, x \in Completions : CreateReturns(r, x)
    \/ \E r \in Requests, e \in Errors : CreateThrows(r, e)
    \/ \E r \in Requests : TextResolves(r)
    \/ \E r \in Requests : TextRejects(r)

Spec == Init /\ [][Next]_vars

SpecConc == InitConc /\ [][Next]_vars

-----------------------------------------------------------------------------
(* What is observed of a request.                                          *)

Done(r) == pc[r] = "done"

\* Number of times r invoked the call op.
Calls(r, op) == Len(SelectSeq(events[r], LAMBDA x : x.e = op))

\* The response a finished request received.
Resp(r) == responses[r][1]

\* r's upstream call threw.
Failed(r) ==
    upstream[r] # <<>> /\ upstream[r][Len(upstream[r])].error # None

\* The error r's upstream call threw.
Thrown(r) == upstream[r][Len(upstream[r])].error[1]

\* The text of a JSON body {"error": s}.
Envelope(s) ==
    <<Punct("{"), Key("error"), Punct(":"), Str(s), Punct("}")>>

\* The status a claim expects for the error e.
ExpectedStatus(e) ==
    IF e.status # None THEN e.status[1]
    ELSE IF e.response # None /\ e.response[1].status # None
         THEN e.response[1].status[1]
         ELSE 502

\* The message a claim expects in the envelope for the error e.
ExpectedMessage(e) ==
    IF e.message # None THEN e.message[1] ELSE "Upstream error"

\* The error carries a response whose text() resolves.
ReadableBody(e) ==
    e.response # None /\ e.response[1].text.kind = "resolves"

\* The error carries no response with a text function.
NoBodyToRead(e) ==
    e.response = None \/ e.response[1].text.kind = "absent"

\* A status a Response with a body can be built with.
Forwardable(st) ==
    st >= 200 /\ st <= 599 /\ st \notin {204, 205, 304}

-----------------------------------------------------------------------------
\* C1: a request whose prompt is "", null or absent never invokes getUrl or
\* create, and is answered 400 with the body {"error":"No prompt provided"}.
C1_EmptyPromptRejected ==
    \A r \in Requests :
        (body[r].kind = "object" /\ body[r].prompt \in {Str(""), Null, Undefined})
        => /\ Calls(r, "getUrl") = 0
           /\ Calls(r, "create") = 0
           /\ Done(r) => /\ Len(responses[r]) = 1
                         /\ Resp(r).status = 400
                         /\ Resp(r).body = Envelope("No prompt provided")

C1_Witness ==
    \E r \in Requests :
        /\ Done(r)
        /\ body[r] = [kind |-> "object", prompt |-> Str("")]
        /\ Len(responses[r]) = 1

\* C2: when getUrl succeeds and create returns the completion X, the answer
\* is 200 and its body reads back as X, member for member.
C2_CompletionPassedThrough ==
    \A r \in Requests :
        (Done(r) /\ upstream[r] # <<>> /\ ~Failed(r))
        => LET x == upstream[r][Len(upstream[r])].completion[1]
           IN /\ Len(responses[r]) = 1
              /\ Resp(r).status = 200
              /\ JsonParse(Resp(r).body) = x

C2_Witness ==
    \E r \in Requests :
        /\ Done(r)
        /\ Len(upstream[r]) = 2
        /\ upstream[r][2].completion # None
        /\ Resp(r).status = 200

\* C3 as stated: whenever the thrown error carries a body whose text() call
\* succeeds, that text is the response body, with content-type
\* application/json and the status err.status, else err.response.status,
\* else 502.
C3_Original ==
    \A r \in Requests :
        (Done(r) /\ Failed(r) /\ ReadableBody(Thrown(r)))
        => /\ Resp(r).body = Thrown(r).response[1].text.body
           /\ Resp(r).contentType = "application/json"
           /\ Resp(r).status = ExpectedStatus(Thrown(r))

\* C3 amended: the same, provided the determined status is one a Response
\* with a body can be built with (200..599 and none of 204, 205, 304).
C3_ForwardedVerbatim ==
    \A r \in Requests :
        (Done(r) /\ Failed(r) /\ ReadableBody(Thrown(r))
         /\ Forwardable(ExpectedStatus(Thrown(r))))
        => /\ Len(responses[r]) = 1
           /\ Resp(r).body = Thrown(r).response[1].text.body
           /\ Resp(r).contentType = "application/json"
           /\ Resp(r).status = ExpectedStatus(Thrown(r))

C3_Witness ==
    \E r \in Requests :
        /\ Done(r) /\ Failed(r) /\ ReadableBody(Thrown(r))
        /\ Thrown(r).status = None
        /\ Thrown(r).response[1].status = Some(503)
        /\ Resp(r).status = 503
        /\ Resp(r).body = RateLimitedText

\* C4 as stated: an error without a readable body is answered with
\* {error: message or "Upstream error"} and the determined status.
C4_Original ==
    \A r \in Requests :
        (Done(r) /\ Failed(r) /\ NoBodyToRead(Thrown(r)))
        => /\ Resp(r).body = Envelope(ExpectedMessage(Thrown(r)))
           /\ Resp(r).status = ExpectedStatus(Thrown(r))

\* C5 as stated: a malformed body is answered 400 and causes no upstream
\* call.
C5_Original ==
    \A r \in Requests :
        (Done(r) /\ body[r].kind = "malformed")
        => /\ Resp(r).status = 400
           /\ Calls(r, "getUrl") = 0
           /\ Calls(r, "create") = 0

\* C6 as stated: every upstream failure is logged before the response is
\* built, the forwarding path included; the 400 path and the success path
\* log nothing.
C6_Original ==
    \A r \in Requests :
        Done(r)
        => IF Failed(r)
           THEN \E i, j \in 1..Len(events[r]) :
                    i < j /\ events[r][i].e = "log" /\ events[r][j].e = "respond"
           ELSE Calls(r, "log") = 0

\* C7: when err.response.text() rejects, or the Response cannot be built
\* from its text, the caller still gets one response, from the handler,
\* whose body is {error: message of the thrown error or "Upstream error"}.
C7_SecondaryFailureAbsorbed ==
    \A r \in Requests :
        (Done(r) /\ Failed(r) /\ IsResponse(Thrown(r))
         /\ \/ Thrown(r).response[1].text.kind = "rejects"
            \/ ~Forwardable(ExpectedStatus(Thrown(r))))
        => /\ Len(responses[r]) = 1
           /\ Resp(r).by = "handler"
           /\ Resp(r).body = Envelope(ExpectedMessage(Thrown(r)))

C7_Witness ==
    \E r \in Requests :
        /\ Done(r) /\ Failed(r)
        /\ Thrown(r).response # None
        /\ Thrown(r).response[1].text.kind = "rejects"
        /\ Calls(r, "text") = 1
        /\ Resp(r).body = Envelope("Upstream error")

\* C8: a request gets exactly one response; getUrl and create are each
\* called at most once; a failed upstream call is the last upstream call;
\* create is not called when getUrl failed.
C8_OneResponseNoRetry ==
    \A r \in Requests :
        /\ Len(responses[r]) <= 1
        /\ Calls(r, "respond") = Len(responses[r])
        /\ Done(r) <=> Len(responses[r]) = 1
        /\ Calls(r, "getUrl") <= 1
        /\ Calls(r, "create") <= 1
        /\ \A i \in 1..Len(upstream[r]) :
               upstream[r][i].error # None
               => /\ i = Len(upstream[r])
                  /\ Calls(r, "getUrl") + Calls(r, "create") = i
                  /\ upstream[r][i].op = "getUrl" => Calls(r, "create") = 0

C8_Witness ==
    \E r \in Requests :
        /\ Done(r) /\ Failed(r)
        /\ Thrown(r).status = Some(429)
        /\ upstream[r][Len(upstream[r])].op = "create"
        /\ Calls(r, "create") = 1
        /\ Len(responses[r]) = 1

\* C9 as stated: the prompt of every dispatched completion request is a
\* non-empty string.
C9_Original ==
    \A r \in Requests :
        \A i \in 1..Len(events[r]) :
            events[r][i].e = "create"
            => events[r][i].arg.t = "string" /\ events[r][i].arg.v # ""

\* Everything the model holds about the request q.
Own(q) ==
    <<pc[q], body[q], prompt[q], err[q], status[q], upstream[q], events[q],
      responses[q]>>

\* Two finished requests with the same body and the same upstream outcomes
\* made the same calls and got the same response.
SameInSameOut ==
    \A q, r \in Requests :
        (Done(q) /\ Done(r) /\ body[q] = body[r] /\ upstream[q] = upstream[r])
        => responses[q] = responses[r] /\ events[q] = events[r]

\* A step of one request changes nothing of any other request, and the
\* prompt a request dispatches is the prompt of its own body.
StepsAreLocal ==
    \A r \in Requests :
        pc'[r] # pc[r] => \A q \in Requests \ {r} : Own(q)' = Own(q)

OwnPromptDispatched ==
    \A r \in Requests :
        \A i \in 1..Len(events[r]) :
            events[r][i].e = "create" => events[r][i].arg = body[r].prompt

\* C10: under every interleaving of concurrent requests, a step of one
\* request leaves the others untouched, each request dispatches its own
\* prompt, and equal requests with equal upstream outcomes get equal
\* responses.
C10_RequestsIndependent ==
    /\ [](SameInSameOut /\ OwnPromptDispatched)
    /\ [][StepsAreLocal]_vars

C10_Witness ==
    /\ Done(1) /\ Done(2)
    /\ body[1] = [kind |-> "object", prompt |-> Str("hi")]
    /\ body[2] = body[1]
    /\ upstream[1] = upstream[2]
    /\ Resp(1).status = 200
    /\ Resp(2) = Resp(1)

====
